---- MODULE Spec2Model ----
(***************************************************************************)
(* The quota feasibility iterator of the scheduler                         *)
(* (scheduler/stack_ent.go): QuotaIterator with SetTaskGroup, SetJob,      *)
(* Next and Reset, the state store it reads, the in-flight plan, and the   *)
(* metrics / eligibility / logger collaborators it reports to.             *)
(*                                                                         *)
(* Go pointers to mutable objects (QuotaUsage, QuotaLimit) are addresses   *)
(* into the heap variable `usages`, so that a missing Copy() shows up as   *)
(* aliasing.  Pointers to objects nobody mutates (job, quota spec, task    *)
(* group footprint) are sets: {} is nil, {v} points to v.                  *)
(***************************************************************************)
EXTENDS Integers, Sequences, FiniteSets, TLC

\* Bound of the model: how many times SetJob may be called on one iterator.
MaxSetJob == 2

(***************************************************************************)
(* structs.Resources: the dimensions quota limits are stated in.           *)
(***************************************************************************)
Dimensions == {"cpu", "memory", "disk"}

Res(c, m, d) == [CPU |-> c, MemoryMB |-> m, DiskMB |-> d]

ZeroRes == Res(0, 0, 0)

\* Resources.Add / QuotaLimit.AddResource: per-dimension sum.
ResAdd(a, b) ==
    [CPU |-> a.CPU + b.CPU, MemoryMB |-> a.MemoryMB + b.MemoryMB,
     DiskMB |-> a.DiskMB + b.DiskMB]

\* The value of one dimension of a resource vector.
Dim(r, d) ==
    CASE d = "cpu" -> r.CPU
      [] d = "memory" -> r.MemoryMB
      [] d = "disk" -> r.DiskMB

\* QuotaLimit.Superset, second result: the dimensions in which `used`
\* exceeds `limit`.
Exhausted(limit, used) == {d \in Dimensions : Dim(used, d) > Dim(limit, d)}

\* QuotaLimit.Superset, first result: limit >= used in every dimension.
Superset(limit, used) == Exhausted(limit, used) = {}

(***************************************************************************)
(* The state store (StateEnterprise): namespaces, quota specifications and *)
(* quota usages by name.  A name outside the DOMAIN is "not found".        *)
(***************************************************************************)
StateNamespaces ==
    [n \in {"default", "prod", "multi", "fresh", "nospec", "nousage"} |->
        CASE n = "default" -> [Name |-> n, Quota |-> ""]
          [] n = "prod"    -> [Name |-> n, Quota |-> "q1"]
          [] n = "multi"   -> [Name |-> n, Quota |-> "q2"]
          [] n = "fresh"   -> [Name |-> n, Quota |-> "q3"]
          [] n = "nospec"  -> [Name |-> n, Quota |-> "q4"]
          [] n = "nousage" -> [Name |-> n, Quota |-> "q5"]]

\* A quota limit of a specification: its scoping hash and its ceiling.
Limit(h, r) == [Hash |-> h, RegionLimit |-> r]

StateQuotaSpecs ==
    [q \in {"q1", "q2", "q3", "q5"} |->
        CASE q = "q1" -> [Name |-> q, Limits |-> <<Limit("h1", Res(1000, 500, 300))>>]
          [] q = "q2" -> [Name |-> q, Limits |-> <<Limit("h1", Res(1000, 500, 300)),
                                                    Limit("h2", Res(600, 300, 300))>>]
          [] q = "q3" -> [Name |-> q, Limits |-> <<Limit("h1", Res(1000, 500, 300))>>]
          [] q = "q5" -> [Name |-> q, Limits |-> <<Limit("h1", Res(1000, 500, 300))>>]]

\* QuotaUsage.Used of each usage record of the store: hash -> consumed.
NoLimits == [h \in {} |-> ZeroRes]

StateQuotaUsages ==
    [q \in {"q1", "q2", "q3"} |->
        CASE q = "q1" -> ("h1" :> Res(400, 200, 100))
          [] q = "q2" -> ("h1" :> Res(400, 200, 100)) @@ ("h2" :> Res(100, 100, 0))
          [] q = "q3" -> NoLimits]

\* The jobs the scheduler may configure the iterator with.
Jobs ==
    {[ID |-> "job-" \o n, Namespace |-> n] :
        n \in DOMAIN StateNamespaces \cup {"ghost"}}

\* The candidate nodes the upstream source may yield; NoNode is Go's nil.
Nodes == {"n1", "n2"}

NoNode == "nil"

(***************************************************************************)
(* Task groups (structs.TaskGroup): ephemeral disk and per-task requests.  *)
(***************************************************************************)
TaskGroups ==
    { [EphemeralDisk |-> [SizeMB |-> 0],   Tasks |-> <<Res(300, 100, 0)>>],
      [EphemeralDisk |-> [SizeMB |-> 0],   Tasks |-> <<Res(300, 100, 0), Res(200, 0, 0)>>],
      [EphemeralDisk |-> [SizeMB |-> 100], Tasks |-> <<Res(400, 200, 0)>>],
      [EphemeralDisk |-> [SizeMB |-> 150], Tasks |-> <<Res(100, 250, 100)>>] }

\* The allocations the outer scheduler may have placed in ctx.Plan().
PlanAllocs == {"a1", "a2"}

AllocResources(a) ==
    CASE a = "a1" -> Res(200, 100, 0)
      [] a = "a2" -> Res(100, 0, 100)

\* The hash of the limit the plan's allocations count against (the limit of
\* the scheduler's own region).
LocalLimitHash == "h1"

VARIABLES
    buildErr,           \* iter.buildErr: "" is nil, else the error
    combinedResources,  \* iter.combinedResources: {} or {Resources}
    job,                \* iter.job: {} or {job}
    quota,              \* iter.quota: {} or {QuotaSpec}
    quotaLimits,        \* iter.quotaLimits: hash -> QuotaLimit
    actUsage,           \* iter.actUsage: "" or the address of a QuotaUsage
    proposedUsage,      \* iter.proposedUsage: "" or the address of a QuotaUsage
    proposedLimit,      \* iter.proposedLimit: a QuotaLimit inside a QuotaUsage
    usages,             \* the heap: address -> (hash -> consumed resources)
    plan,               \* ctx.Plan(): the allocations placed so far
    planAtReset,        \* history: the plan the last projecting Reset saw
    planAtPrevReset,    \* history: the plan the projecting Reset before it saw
    projected,          \* history: a projecting Reset ran since the last SetJob
                        \*          that stored a quota
    setJobCalls,        \* history: the number of SetJob calls so far
    resolveFailed,      \* history: some SetJob lookup failed or found nothing
    taskGroup,          \* history: {} or {the task group SetTaskGroup got last}
    epochVerdicts,      \* history: <<candidate, verdict>> of every Next() that
                        \*          evaluated a candidate since the last Reset,
                        \*          SetJob or SetTaskGroup
    setJobPath,         \* the return statement the last operation, a SetJob,
                        \*          left by ("" for any other operation)
    lastOp,             \* the operation that ran last
    option,             \* what source.Next() returned to the last Next()
    ret,                \* what the last Next() returned
    exhaustCall,        \* Metrics().ExhaustQuota calls of the last operation
    limitReachedCall,   \* Eligibility().SetQuotaLimitReached calls of the last op
    logCalls,           \* Logger().Error entries of the last operation
    srcNextCalls,       \* source.Next() calls of the last operation
    srcResetCalls,      \* source.Reset() calls of the last operation
    panicked,           \* the last operation ended in a runtime panic
    running,            \* the scheduler worker (1 or 2) whose iterator and plan
                        \*          the variables above hold
    other               \* the iterator, plan and history of the other worker

iterVars == <<buildErr, combinedResources, job, quota, quotaLimits, actUsage,
              proposedUsage, proposedLimit>>

histVars == <<planAtReset, planAtPrevReset, projected, setJobCalls,
              resolveFailed, taskGroup, epochVerdicts>>

obsVars == <<lastOp, option, ret, exhaustCall, limitReachedCall, logCalls,
             srcNextCalls, srcResetCalls, panicked, setJobPath>>

workerVars == <<running, other>>

vars == <<iterVars, usages, plan, histVars, obsVars, workerVars>>

\* A nil *QuotaLimit.
NilLimit == [obj |-> "", hash |-> ""]

\* The addresses of the heap: the store's usage records, each worker's
\* proposed usage and the limit copy local to one Next() call.
UsageAddrs == DOMAIN StateQuotaUsages \cup {"prop", "prop2", "tmp"}


(***************************************************************************)
(* Pure helpers.                                                           *)
(***************************************************************************)
RECURSIVE SumTasks(_)
\* The loop of combinedResources: r.Add(task.Resources) for every task.
SumTasks(tasks) ==
    IF tasks = <<>> THEN ZeroRes
    ELSE ResAdd(Head(tasks), SumTasks(Tail(tasks)))

\* Faulty variant of CombinedResources: the ephemeral disk is left out.
CombinedResourcesNoDisk(tg) == SumTasks(tg.Tasks)

\* combinedResources(tg): the ephemeral disk plus every task's request.
CombinedResources(tg) ==
    ResAdd(Res(0, 0, tg.EphemeralDisk.SizeMB), SumTasks(tg.Tasks))

\* QuotaSpec.LimitsMap(): the limits of a specification keyed by hash.
LimitsMap(spec) ==
    [h \in {spec.Limits[i].Hash : i \in 1..Len(spec.Limits)} |->
        CHOOSE l \in {spec.Limits[i] : i \in 1..Len(spec.Limits)} : l.Hash = h]

RECURSIVE PlanResources(_)
\* The summed footprint of a set of planned allocations.
PlanResources(allocs) ==
    IF allocs = {} THEN ZeroRes
    ELSE LET a == CHOOSE x \in allocs : TRUE
         IN ResAdd(AllocResources(a), PlanResources(allocs \ {a}))

\* structs.UpdateUsageFromPlan(usage, plan): the usage record at `addr` with
\* every planned allocation added to the limit it counts against.
UpdateUsageFromPlan(heap, addr, p) ==
    [heap EXCEPT ![addr] =
        [h \in DOMAIN heap[addr] |->
            IF h = LocalLimitHash THEN ResAdd(heap[addr][h], PlanResources(p))
            ELSE heap[addr][h]]]

\* The footprint Next() adds: the stored one, or nothing when none is stored
\* and AddResource tolerates nil.
Footprint ==
    IF combinedResources = {} THEN ZeroRes
    ELSE CHOOSE r \in combinedResources : TRUE

\* iter.quota.Name, "" for a nil quota.
QuotaName == IF quota = {} THEN "" ELSE (CHOOSE q \in quota : TRUE).Name

(***************************************************************************)
(* Init: the iterator as NewQuotaIterator leaves it, the store's usage     *)
(* records on the heap, an empty plan.                                     *)
(***************************************************************************)
\* NewQuotaIterator(ctx, source): no field but ctx and source is set. With
\* it, the worker's empty plan and its history.
NewQuotaIterator ==
    [buildErr |-> "", combinedResources |-> {}, job |-> {}, quota |-> {},
     quotaLimits |-> [h \in {} |-> Limit("", ZeroRes)], actUsage |-> "",
     proposedUsage |-> "", proposedLimit |-> NilLimit,
     plan |-> {}, planAtReset |-> {}, planAtPrevReset |-> {},
     projected |-> FALSE, setJobCalls |-> 0, resolveFailed |-> FALSE,
     taskGroup |-> {}, epochVerdicts |-> {}]

Init ==
    /\ buildErr = ""
    /\ combinedResources = {}
    /\ job = {}
    /\ quota = {}
    /\ quotaLimits = [h \in {} |-> Limit("", ZeroRes)]
    /\ actUsage = ""
    /\ proposedUsage = ""
    /\ proposedLimit = NilLimit
    /\ usages = [a \in UsageAddrs |->
                    IF a \in DOMAIN StateQuotaUsages THEN StateQuotaUsages[a]
                    ELSE NoLimits]
    /\ plan = {}
    /\ planAtReset = {}
    /\ planAtPrevReset = {}
    /\ projected = FALSE
    /\ setJobCalls = 0
    /\ resolveFailed = FALSE
    /\ taskGroup = {}
    /\ epochVerdicts = {}
    /\ setJobPath = ""
    /\ lastOp = "New"
    /\ option = NoNode
    /\ ret = NoNode
    /\ exhaustCall = <<>>
    /\ limitReachedCall = <<>>
    /\ logCalls = <<>>
    /\ srcNextCalls = 0
    /\ srcResetCalls = 0
    /\ panicked = FALSE
    /\ running = 1
    /\ other = NewQuotaIterator

\* What an operation that calls no collaborator leaves in the observations.
Quiet(op) ==
    /\ lastOp' = op
    /\ option' = NoNode
    /\ ret' = NoNode
    /\ exhaustCall' = <<>>
    /\ limitReachedCall' = <<>>
    /\ logCalls' = <<>>
    /\ srcNextCalls' = 0
    /\ srcResetCalls' = 0
    /\ panicked' = FALSE
    /\ setJobPath' = ""

(***************************************************************************)
(* SetTaskGroup(tg)                                                        *)
(***************************************************************************)
SetTaskGroup(tg) ==
    /\ ~panicked
    /\ combinedResources' = {CombinedResources(tg)}
    /\ taskGroup' = {tg}
    /\ epochVerdicts' = {}
    /\ Quiet("SetTaskGroup")
    /\ UNCHANGED <<buildErr, job, quota, quotaLimits, actUsage, proposedUsage,
                   proposedLimit, usages, plan, planAtReset, planAtPrevReset,
                   projected, setJobCalls, resolveFailed>>


(***************************************************************************)
(* SetJob(job): the quota resolver.  `failing` names the lookup of this    *)
(* call that returns an error ("namespace", "spec", "usage"), "" for none; *)
(* SetJob returns at the first error, so one failing lookup per call       *)
(* covers every combination.                                               *)
(***************************************************************************)
\* The lookup of one SetJob call that returns an error, "" for none.
Lookups == {"", "namespace", "spec", "usage"}

\* Faulty variant of NoLimitApplies: the test is dropped.
NoLimitAppliesNever(q) == FALSE

\* if len(usage.Used) == 0 { return }
NoLimitApplies(q) == DOMAIN usages[q] = {}

\* The return statement SetJob leaves by.
SetJobPath(j, failing) ==
    IF failing = "namespace" THEN "ns-error"
    ELSE IF j.Namespace \notin DOMAIN StateNamespaces THEN "ns-unknown"
    ELSE LET q == StateNamespaces[j.Namespace].Quota
         IN IF q = "" THEN "no-quota"
            ELSE IF failing = "spec" THEN "spec-error"
            ELSE IF q \notin DOMAIN StateQuotaSpecs THEN "spec-unknown"
            ELSE IF failing = "usage" THEN "usage-error"
            ELSE IF q \notin DOMAIN StateQuotaUsages THEN "usage-unknown"
            ELSE IF NoLimitApplies(q) THEN "no-limits"
            ELSE "stored"

\* The paths on which a lookup failed or found nothing.
FailurePaths ==
    {"ns-error", "ns-unknown", "spec-error", "spec-unknown", "usage-error",
     "usage-unknown"}

\* The error SetJob builds on a failure path.
BuildError(path) ==
    CASE path = "ns-error"      -> "failed to lookup job namespace"
      [] path = "ns-unknown"    -> "unknown namespace referenced by job"
      [] path = "spec-error"    -> "failed to lookup quota"
      [] path = "spec-unknown"  -> "unknown quota referenced by namespace"
      [] path = "usage-error"   -> "failed to lookup quota usage"
      [] path = "usage-unknown" -> "unknown quota usage"

\* Faulty variant of StoresQuota: the quota is stored before the test for
\* an empty usage.
StoresQuotaDespiteEmpty(path) == path \in {"stored", "no-limits"}

\* The paths that reach "Store the quota and usage since it applies to us".
StoresQuota(path) == path = "stored"

\* Faulty variant of ErrorLogCalls: the failure is not logged.
ErrorLogSkipped(path) == <<>>

\* iter.ctx.Logger().Named("stack").Error(..., iter.buildErr) of a failure path
ErrorLogCalls(path) == <<BuildError(path)>>

SetJob(j, failing) ==
    /\ ~panicked
    /\ setJobCalls < MaxSetJob
    /\ LET path == SetJobPath(j, failing)
           q == StateNamespaces[j.Namespace].Quota
       IN /\ job' = {j}
          /\ IF path \in FailurePaths
             THEN /\ buildErr' = BuildError(path)
                  /\ logCalls' = ErrorLogCalls(path)
             ELSE /\ buildErr' = buildErr
                  /\ logCalls' = <<>>
          /\ IF StoresQuota(path)
             THEN /\ quota' = {StateQuotaSpecs[q]}
                  /\ quotaLimits' = LimitsMap(StateQuotaSpecs[q])
                  /\ actUsage' = q
                  /\ projected' = FALSE
             ELSE UNCHANGED <<quota, quotaLimits, actUsage, projected>>
          /\ resolveFailed' = (resolveFailed \/ path \in FailurePaths)
          /\ setJobPath' = path
    /\ setJobCalls' = setJobCalls + 1
    /\ lastOp' = "SetJob"
    /\ option' = NoNode
    /\ ret' = NoNode
    /\ exhaustCall' = <<>>
    /\ limitReachedCall' = <<>>
    /\ srcNextCalls' = 0
    /\ srcResetCalls' = 0
    /\ panicked' = FALSE
    /\ epochVerdicts' = {}
    /\ UNCHANGED <<combinedResources, proposedUsage, proposedLimit, usages,
                   plan, planAtReset, planAtPrevReset, taskGroup>>

(***************************************************************************)
(* Next()                                                                  *)
(***************************************************************************)
\* Faulty variant of PassThrough: the quota test is dropped.
PassThroughNoQuotaTest(opt) == opt = NoNode \/ buildErr # ""

\* Faulty variant of PassThrough: the build error test is dropped.
PassThroughNoErrTest(opt) == opt = NoNode \/ quota = {}

\* The pass-through test: no candidate, no quota, or a build error.
PassThrough(opt) == opt = NoNode \/ quota = {} \/ buildErr # ""

\* Faulty variant of ProposedLimitCopy: the cached limit itself, not a copy.
ProposedLimitAlias == proposedLimit

\* proposedLimitCopy := iter.proposedLimit.Copy(): a limit object of its own.
ProposedLimitCopy == [obj |-> "tmp", hash |-> proposedLimit.hash]

\* Faulty variant of HeapAfterAdd: the footprint is not added to the copy.
HeapAfterCopyOnly ==
    [usages EXCEPT !["tmp"] =
        (proposedLimit.hash :> usages[proposedLimit.obj][proposedLimit.hash])]

\* The heap once the copy is made and the footprint is added to it.
HeapAfterAdd ==
    LET copy == ProposedLimitCopy
        copied == IF copy.obj = "tmp"
                  THEN [usages EXCEPT !["tmp"] =
                          (copy.hash :> usages[proposedLimit.obj][proposedLimit.hash])]
                  ELSE usages
    IN [copied EXCEPT ![copy.obj][copy.hash] = ResAdd(@, Footprint)]

\* A Next() call that dereferences nil: no limit was cached, the footprint
\* is nil and AddResource does not tolerate it (tolerant = FALSE), or the
\* limit mapping has no entry for the cached limit's hash.
NextPanics(tolerant) ==
    \/ proposedLimit = NilLimit
    \/ combinedResources = {} /\ ~tolerant
    \/ proposedLimit.hash \notin DOMAIN quotaLimits

\* ctx.Metrics().ExhaustQuota(dimensions)
ExhaustQuotaCalls(dims) == <<dims>>

\* Faulty variant of SetQuotaLimitReachedCalls: the eligibility tracker is not told.
SetQuotaLimitReachedSkipped == <<>>

\* ctx.Eligibility().SetQuotaLimitReached(iter.quota.Name)
SetQuotaLimitReachedCalls == <<QuotaName>>

\* Faulty variant of UpstreamPulls: a rejected candidate is replaced by
\* the next one of the source.
UpstreamPullsRetry(rejected) == IF rejected THEN 2 ELSE 1

\* option := iter.source.Next(): the source.Next() calls of one Next(),
\* whether or not the candidate is rejected afterwards.
UpstreamPulls(rejected) == 1

Next ==
    /\ ~panicked
    /\ \E opt \in Nodes \cup {NoNode}, tolerant \in BOOLEAN :
        /\ option' = opt
        /\ IF PassThrough(opt)
           THEN /\ ret' = opt
                /\ srcNextCalls' = UpstreamPulls(FALSE)
                /\ exhaustCall' = <<>>
                /\ limitReachedCall' = <<>>
                /\ panicked' = FALSE
                /\ usages' = usages
                /\ epochVerdicts' = epochVerdicts
           ELSE IF NextPanics(tolerant)
           THEN /\ ret' = NoNode
                /\ srcNextCalls' = UpstreamPulls(FALSE)
                /\ exhaustCall' = <<>>
                /\ limitReachedCall' = <<>>
                /\ panicked' = TRUE
                /\ usages' = usages
                /\ epochVerdicts' = epochVerdicts
           ELSE LET copy == ProposedLimitCopy
                    heap == HeapAfterAdd
                    quotaLimit == quotaLimits[copy.hash]
                    proposed == heap[copy.obj][copy.hash]
                IN /\ IF Superset(quotaLimit.RegionLimit, proposed)
                      THEN /\ ret' = opt
                           /\ srcNextCalls' = UpstreamPulls(FALSE)
                           /\ exhaustCall' = <<>>
                           /\ limitReachedCall' = <<>>
                           /\ epochVerdicts' = epochVerdicts \cup {<<opt, "accept">>}
                      ELSE /\ ret' = NoNode
                           /\ srcNextCalls' = UpstreamPulls(TRUE)
                           /\ epochVerdicts' = epochVerdicts \cup {<<opt, "reject">>}
                           /\ exhaustCall' = ExhaustQuotaCalls(
                                Exhausted(quotaLimit.RegionLimit, proposed))
                           /\ limitReachedCall' = SetQuotaLimitReachedCalls
                   /\ panicked' = FALSE
                   /\ usages' = [heap EXCEPT !["tmp"] = NoLimits]
    /\ lastOp' = "Next"
    /\ logCalls' = <<>>
    /\ srcResetCalls' = 0
    /\ setJobPath' = ""
    /\ UNCHANGED <<iterVars, plan, planAtReset, planAtPrevReset, projected,
                   setJobCalls, resolveFailed, taskGroup>>

(***************************************************************************)
(* Reset()                                                                 *)
(***************************************************************************)
\* Faulty variant of ProposedUsageCopy: the actual usage itself, not a copy.
ProposedUsageAlias == actUsage

\* iter.proposedUsage = iter.actUsage.Copy(): the address of the new object.
ProposedUsageCopy == IF running = 1 THEN "prop" ELSE "prop2"

\* Faulty variant of ProposedBase: the previous proposed usage is patched.
ProposedBaseIncremental ==
    IF proposedUsage # "" THEN usages[proposedUsage] ELSE usages[actUsage]

\* What the new proposed usage starts from: the actual usage.
ProposedBase == usages[actUsage]

\* Faulty variant of NothingMoreToDo: a build error is needed as well.
NothingMoreToDoOnError == quota = {} /\ buildErr # ""

\* if iter.quota == nil { return }
NothingMoreToDo == quota = {}

\* Faulty variant of CurrentPlan: the plan the previous Reset() read.
CachedPlan == planAtReset

\* iter.ctx.Plan(), as Reset() reads it.
CurrentPlan == plan

Reset ==
    /\ ~panicked
    /\ srcResetCalls' = 1
    /\ IF NothingMoreToDo
       THEN /\ panicked' = FALSE
            /\ UNCHANGED <<proposedUsage, proposedLimit, usages, planAtReset,
                           planAtPrevReset, projected>>
       ELSE IF actUsage = ""
       \* a nil usage is handed to UpdateUsageFromPlan
       THEN /\ panicked' = TRUE
            /\ UNCHANGED <<proposedUsage, proposedLimit, usages, planAtReset,
                           planAtPrevReset, projected>>
       ELSE LET addr == ProposedUsageCopy
                copied == [usages EXCEPT ![addr] = ProposedBase]
                heap == UpdateUsageFromPlan(copied, addr, CurrentPlan)
            IN /\ proposedUsage' = addr
               /\ usages' = heap
               \* the loop keeps the entry the map iteration yields last,
               \* and the old limit when there is no entry
               /\ IF DOMAIN heap[addr] = {}
                  THEN proposedLimit' = proposedLimit
                  ELSE \E h \in DOMAIN heap[addr] :
                          proposedLimit' = [obj |-> addr, hash |-> h]
               /\ planAtReset' = plan
               /\ planAtPrevReset' = planAtReset
               /\ projected' = TRUE
               /\ panicked' = FALSE
    /\ epochVerdicts' = {}
    /\ setJobPath' = ""
    /\ lastOp' = "Reset"
    /\ option' = NoNode
    /\ ret' = NoNode
    /\ exhaustCall' = <<>>
    /\ limitReachedCall' = <<>>
    /\ logCalls' = <<>>
    /\ srcNextCalls' = 0
    /\ UNCHANGED <<buildErr, combinedResources, job, quota, quotaLimits,
                   actUsage, plan, setJobCalls, resolveFailed, taskGroup>>

(***************************************************************************)
(* The outer scheduler revises its plan between the iterator's calls.      *)
(***************************************************************************)
AppendAlloc(a) ==
    /\ ~panicked
    /\ a \notin plan
    /\ plan' = plan \cup {a}
    /\ Quiet("AppendAlloc")
    /\ UNCHANGED <<iterVars, usages, histVars>>

PopAlloc(a) ==
    /\ ~panicked
    /\ a \in plan
    /\ plan' = plan \ {a}
    /\ Quiet("PopAlloc")
    /\ UNCHANGED <<iterVars, usages, histVars>>

\* One scheduler worker: the other worker's iterator is never touched.
Step ==
    \/ \E tg \in TaskGroups : SetTaskGroup(tg) /\ UNCHANGED workerVars
    \/ \E j \in Jobs, failing \in Lookups :
          SetJob(j, failing) /\ UNCHANGED workerVars
    \/ Next /\ UNCHANGED workerVars
    \/ Reset /\ UNCHANGED workerVars
    \/ \E a \in PlanAllocs : AppendAlloc(a) /\ UNCHANGED workerVars
    \/ \E a \in PlanAllocs : PopAlloc(a) /\ UNCHANGED workerVars

Spec == Init /\ [][Step]_vars

(***************************************************************************)
(* Two scheduler workers, each with its own QuotaIterator and its own      *)
(* plan, over one state store. The calls of the two workers interleave;    *)
(* each worker configures its iterator once, as the scheduler does, and    *)
(* only adds to its plan.                                                  *)
(***************************************************************************)
\* The jobs the two workers schedule: two of them resolve to a quota with a
\* usage record, one to a quota whose usage is unknown.
WorkerJobs == {j \in Jobs : j.Namespace \in {"prod", "multi", "nousage"}}

\* The task group both workers place.
WorkerTaskGroups ==
    {tg \in TaskGroups : CombinedResources(tg) = Res(500, 100, 0)}

\* The allocations worker w may put into its plan.
WorkerAllocs(w) == IF w = 1 THEN {"a1"} ELSE {"a2"}

\* The other worker's call comes next: the iterator, plan and history of the
\* running worker are set aside and those of the other worker taken up.
Switch ==
    /\ ~panicked
    /\ running' = 3 - running
    /\ other' = [buildErr |-> buildErr,
                 combinedResources |-> combinedResources,
                 job |-> job, quota |-> quota, quotaLimits |-> quotaLimits,
                 actUsage |-> actUsage, proposedUsage |-> proposedUsage,
                 proposedLimit |-> proposedLimit,
                 plan |-> plan, planAtReset |-> planAtReset,
                 planAtPrevReset |-> planAtPrevReset, projected |-> projected,
                 setJobCalls |-> setJobCalls, resolveFailed |-> resolveFailed,
                 taskGroup |-> taskGroup, epochVerdicts |-> epochVerdicts]
    /\ buildErr' = other.buildErr
    /\ combinedResources' = other.combinedResources
    /\ job' = other.job
    /\ quota' = other.quota
    /\ quotaLimits' = other.quotaLimits
    /\ actUsage' = other.actUsage
    /\ proposedUsage' = other.proposedUsage
    /\ proposedLimit' = other.proposedLimit
    /\ plan' = other.plan
    /\ planAtReset' = other.planAtReset
    /\ planAtPrevReset' = other.planAtPrevReset
    /\ projected' = other.projected
    /\ setJobCalls' = other.setJobCalls
    /\ resolveFailed' = other.resolveFailed
    /\ taskGroup' = other.taskGroup
    /\ epochVerdicts' = other.epochVerdicts
    /\ Quiet("Switch")
    /\ UNCHANGED usages

WorkersStep ==
    \/ \E tg \in WorkerTaskGroups :
          taskGroup = {} /\ SetTaskGroup(tg) /\ UNCHANGED workerVars
    \/ \E j \in WorkerJobs :
          setJobCalls = 0 /\ SetJob(j, "none") /\ UNCHANGED workerVars
    \/ Next /\ UNCHANGED workerVars
    \/ Reset /\ UNCHANGED workerVars
    \/ \E a \in WorkerAllocs(running) : AppendAlloc(a) /\ UNCHANGED workerVars
    \/ Switch

SpecWorkers == Init /\ [][WorkersStep]_vars


(***************************************************************************)
(* Vocabulary of the properties.                                           *)
(***************************************************************************)
\* The last operation was a Next() that returned.
NextReturned == lastOp = "Next" /\ ~panicked

\* The last Next() reached the limit evaluator and returned: a candidate,
\* a stored quota, no build error.
Evaluated ==
    NextReturned /\ option # NoNode /\ quota # {} /\ buildErr = ""

\* The last Next() rejected its candidate.
Rejected == Evaluated /\ ret = NoNode

\* SetJob ran once, for a job whose namespace exists and names no quota.
ConfiguredWithoutQuota ==
    /\ setJobCalls = 1
    /\ ~resolveFailed
    /\ \A j \in job : /\ j.Namespace \in DOMAIN StateNamespaces
                      /\ StateNamespaces[j.Namespace].Quota = ""

\* What the plan contributes to the limit with hash h.
PlanShare(p, h) == IF h = LocalLimitHash THEN PlanResources(p) ELSE ZeroRes

\* Actual usage + the plan as of the last Reset + the footprint, for the
\* cached applicable limit.
ProposedInclusive ==
    ResAdd(ResAdd(usages[actUsage][proposedLimit.hash],
                  PlanShare(planAtReset, proposedLimit.hash)),
           Footprint)

\* The ceiling of the cached applicable limit.
Ceiling == quotaLimits[proposedLimit.hash].RegionLimit

(***************************************************************************)
(* C1 (pass-through): on an iterator configured once, for a job whose      *)
(* namespace exists and has an empty quota name, every Next() returns      *)
(* exactly what the upstream source returned for that call, whatever Next  *)
(* and Reset calls, footprints and plans came before.                      *)
(***************************************************************************)
C1_PassThrough ==
    (lastOp = "Next" /\ ConfiguredWithoutQuota) => (~panicked /\ ret = option)

\* A large footprint and a candidate passed through with no quota.
C1_Witness ==
    /\ lastOp = "Next"
    /\ ConfiguredWithoutQuota
    /\ option \in Nodes
    /\ ret = option
    /\ combinedResources # {}
    /\ Footprint.CPU >= 500

(***************************************************************************)
(* C2 (fail-open): once a namespace, quota specification or quota usage    *)
(* lookup of SetJob has returned an error or found nothing, every later    *)
(* Next() returns the upstream candidate unchanged, and no later operation *)
(* calls ExhaustQuota or SetQuotaLimitReached.                             *)
(***************************************************************************)
C2_FailOpen ==
    resolveFailed =>
        /\ exhaustCall = <<>>
        /\ limitReachedCall = <<>>
        /\ lastOp = "Next" => (~panicked /\ ret = option)

\* A candidate passed through after the usage lookup found nothing.
C2_Witness ==
    /\ lastOp = "Next"
    /\ buildErr = "unknown quota usage"
    /\ resolveFailed
    /\ option \in Nodes
    /\ ret = option

(***************************************************************************)
(* C3 (limit evaluator): a Next() that evaluates a candidate after a       *)
(* Reset returns the candidate if and only if, in every dimension, the     *)
(* limit is >= actual usage + the plan as of the last Reset + the          *)
(* footprint (equality accepted); when it rejects, the dimensions reported *)
(* are exactly those in which the sum exceeds the limit.                   *)
(***************************************************************************)
C3_LimitEvaluator ==
    (Evaluated /\ projected) =>
        /\ (ret = option) <=>
              \A d \in Dimensions : Dim(Ceiling, d) >= Dim(ProposedInclusive, d)
        /\ ret # option =>
              /\ ret = NoNode
              /\ exhaustCall =
                    <<{d \in Dimensions :
                          Dim(ProposedInclusive, d) > Dim(Ceiling, d)}>>

\* Scenario 1 and the equality case: limit 1000, actual 400, plan 200 and a
\* footprint of 400 CPU are accepted.
C3_Witness ==
    /\ Evaluated /\ projected
    /\ QuotaName = "q1"
    /\ planAtReset = {"a1"}
    /\ Footprint.CPU = 400
    /\ ProposedInclusive.CPU = Ceiling.CPU
    /\ ret = option

(***************************************************************************)
(* C4 (reporting): a Next() that rejects a candidate records the exhausted *)
(* dimensions in the metrics sink, marks the stored quota's name in the    *)
(* eligibility tracker and returns none; and neither recording is made by  *)
(* anything but a Next() that rejects a candidate.                         *)
(***************************************************************************)
C4_Reporting ==
    /\ Rejected =>
          /\ Len(exhaustCall) = 1
          /\ exhaustCall[1] # {}
          /\ limitReachedCall = <<QuotaName>>
          /\ QuotaName \in DOMAIN StateQuotaSpecs
          /\ setJobCalls = 1 =>
                \A j \in job : QuotaName = StateNamespaces[j.Namespace].Quota
    /\ (exhaustCall # <<>> \/ limitReachedCall # <<>>) => Rejected

\* A candidate rejected on CPU alone (scenario 2).
C4_Witness ==
    /\ Rejected
    /\ exhaustCall = <<{"cpu"}>>
    /\ limitReachedCall = <<"q1">>

(***************************************************************************)
(* C5 (copy isolation): a Next() call, accepting or rejecting, leaves the  *)
(* proposed usage, every other usage record and the cached applicable      *)
(* limit as they were, so every Next() of one Reset epoch is evaluated     *)
(* against the same proposed usage.                                        *)
(***************************************************************************)
C5_CopyIsolation ==
    [][lastOp' = "Next" =>
          /\ usages' = usages
          /\ proposedUsage' = proposedUsage
          /\ proposedLimit' = proposedLimit]_vars

\* A rejection that left the proposed usage at actual usage + plan.
C5_Witness ==
    /\ Rejected
    /\ projected
    /\ proposedUsage = "prop"
    /\ plan = planAtReset
    /\ usages["prop"][proposedLimit.hash] =
          ResAdd(usages[actUsage][proposedLimit.hash],
                 PlanShare(plan, proposedLimit.hash))

(***************************************************************************)
(* C6 (full rebuild): after every Reset() with a stored quota, the         *)
(* proposed usage is the actual usage plus the footprints of exactly the   *)
(* allocations in the plan at that Reset, whatever the plan held before.   *)
(***************************************************************************)
C6_FullRebuild ==
    (lastOp = "Reset" /\ quota # {}) =>
        /\ proposedUsage # ""
        /\ DOMAIN usages[proposedUsage] = DOMAIN usages[actUsage]
        /\ \A h \in DOMAIN usages[actUsage] :
              usages[proposedUsage][h] =
                 ResAdd(usages[actUsage][h], PlanShare(plan, h))

\* A Reset after the plan lost an allocation the previous Reset counted.
C6_Witness ==
    /\ lastOp = "Reset"
    /\ quota # {}
    /\ projected
    /\ planAtPrevReset = {"a1", "a2"}
    /\ plan = {"a2"}
    /\ usages[proposedUsage]["h1"] = Res(500, 200, 200)

(***************************************************************************)
(* C7 (Reset idempotence): a Reset() that directly follows a Reset(), with *)
(* no plan change in between, leaves the proposed usage and the applicable *)
(* limit as the first Reset() left them.                                   *)
(***************************************************************************)
C7_ResetIdempotent ==
    [][(lastOp = "Reset" /\ lastOp' = "Reset" /\ quota # {}) =>
          /\ usages'[proposedUsage'] = usages[proposedUsage]
          /\ proposedLimit' = proposedLimit]_vars

(***************************************************************************)
(* C8 (invariant violation): when the proposed usage a Reset() built does  *)
(* not hold exactly one limit, the Reset() logs an error and enforcement   *)
(* is disabled: every later Next() passes through.                         *)
(***************************************************************************)
C8_ViolationDisablesEnforcement ==
    (lastOp = "Reset" /\ quota # {}
        /\ Cardinality(DOMAIN usages[proposedUsage]) # 1) =>
            /\ logCalls # <<>>
            /\ \A n \in Nodes : PassThrough(n)

(***************************************************************************)
(* C9 (no abort): every Next() and Reset() call completes, whatever        *)
(* sequence of SetTaskGroup, SetJob, Next and Reset calls came before.     *)
(***************************************************************************)
C9_NeverAborts == ~panicked

(***************************************************************************)
(* C10 (immutable actual usage): the actual usage the iterator holds       *)
(* always equals the record of the state store, and the proposed usage     *)
(* changes in no operation but Reset().                                    *)
(***************************************************************************)
C10_ActualUsageImmutable ==
    /\ [](actUsage # "" => usages[actUsage] = StateQuotaUsages[actUsage])
    /\ [][(\/ proposedUsage' # proposedUsage
           \/ /\ proposedUsage # ""
              /\ usages'[proposedUsage] # usages[proposedUsage])
          => lastOp' = "Reset"]_vars

\* A Reset that projected a non-empty plan and left the actual usage alone.
C10_Witness ==
    /\ lastOp = "Reset"
    /\ actUsage = "q1"
    /\ plan = {"a1", "a2"}
    /\ usages["prop"]["h1"] = Res(700, 300, 200)
    /\ usages["q1"]["h1"] = Res(400, 200, 100)


(***************************************************************************)
(* C11 (node independence): within one Reset epoch with a fixed footprint  *)
(* and configuration, every candidate Next() evaluates gets the same       *)
(* verdict, whichever node it is and however the plan changed meanwhile.   *)
(***************************************************************************)
C11_NodeIndependence ==
    \A v, w \in epochVerdicts : v[2] = w[2]

\* Both nodes were evaluated in one epoch, across a plan change.
C11_Witness ==
    /\ {<<"n1", "reject">>, <<"n2", "reject">>} \subseteq epochVerdicts
    /\ plan # planAtReset
    /\ Rejected

(***************************************************************************)
(* C12 (resolution failures): a SetJob call that leaves by a failure path  *)
(* (namespace, quota specification or quota usage lookup error or not      *)
(* found) records the build error of that path, logs exactly one error     *)
(* entry, assigns no quota, limit mapping or actual usage, and returns.    *)
(***************************************************************************)
\* The job's namespace, its quota specification or its quota usage is not
\* in the store.
Unresolvable(j) ==
    \/ j.Namespace \notin DOMAIN StateNamespaces
    \/ /\ StateNamespaces[j.Namespace].Quota # ""
       /\ \/ StateNamespaces[j.Namespace].Quota \notin DOMAIN StateQuotaSpecs
          \/ StateNamespaces[j.Namespace].Quota \notin DOMAIN StateQuotaUsages

C12_ResolutionFailures ==
    /\ [](lastOp = "SetJob" =>
            /\ (\E j \in job : Unresolvable(j)) => setJobPath \in FailurePaths
            /\ setJobPath \in FailurePaths =>
                  /\ ~panicked
                  /\ buildErr # ""
                  /\ buildErr = BuildError(setJobPath)
                  /\ logCalls = <<buildErr>>
                  /\ setJobCalls = 1 =>
                        /\ quota = {}
                        /\ DOMAIN quotaLimits = {}
                        /\ actUsage = "")
    /\ [][(lastOp' = "SetJob" /\ setJobPath' \in FailurePaths) =>
             UNCHANGED <<quota, quotaLimits, actUsage>>]_vars

\* Scenario 5: the usage of the quota the namespace names is not found.
C12_Witness ==
    /\ lastOp = "SetJob"
    /\ setJobPath = "usage-unknown"
    /\ \E j \in job : StateNamespaces[j.Namespace].Quota = "q5"
    /\ buildErr = "unknown quota usage"
    /\ Len(logCalls) = 1
    /\ quota = {}

(***************************************************************************)
(* C13 (empty usage): on an iterator configured once, for a job whose      *)
(* quota usage record holds no limit, no build error is recorded, nothing  *)
(* is logged, every Next() passes through and Reset() only forwards to     *)
(* the source.                                                             *)
(***************************************************************************)
ConfiguredWithEmptyUsage ==
    /\ setJobCalls = 1
    /\ ~resolveFailed
    /\ \E j \in job :
          /\ j.Namespace \in DOMAIN StateNamespaces
          /\ StateNamespaces[j.Namespace].Quota \in DOMAIN StateQuotaUsages
          /\ DOMAIN StateQuotaUsages[StateNamespaces[j.Namespace].Quota] = {}

C13_EmptyUsage ==
    ConfiguredWithEmptyUsage =>
        /\ buildErr = ""
        /\ logCalls = <<>>
        /\ ~panicked
        /\ lastOp = "SetJob" => setJobPath = "no-limits"
        /\ lastOp = "Next" =>
              ret = option /\ exhaustCall = <<>> /\ limitReachedCall = <<>>
        /\ lastOp = "Reset" => srcResetCalls = 1
        /\ proposedUsage = ""
        /\ proposedLimit = NilLimit
        /\ \A a \in DOMAIN usages :
              usages[a] = IF a \in DOMAIN StateQuotaUsages
                          THEN StateQuotaUsages[a] ELSE NoLimits

\* A candidate passed through after a Reset, with a footprint set.
C13_Witness ==
    /\ ConfiguredWithEmptyUsage
    /\ lastOp = "Next"
    /\ option \in Nodes
    /\ ret = option
    /\ combinedResources # {}
    /\ plan # {}

(***************************************************************************)
(* C15 (resource aggregator): the footprint SetTaskGroup stores has, as    *)
(* disk, the ephemeral disk size plus the sum of the tasks' disk requests  *)
(* and, in every other dimension, the sum of the tasks' requests.          *)
(***************************************************************************)
RECURSIVE DimTotal(_, _, _)
\* The sum of dimension d over the first n tasks.
DimTotal(tasks, d, n) ==
    IF n = 0 THEN 0 ELSE Dim(tasks[n], d) + DimTotal(tasks, d, n - 1)

C15_Aggregator ==
    /\ (taskGroup = {}) <=> (combinedResources = {})
    /\ \A tg \in taskGroup : \A r \in combinedResources :
          /\ r.DiskMB = tg.EphemeralDisk.SizeMB
                          + DimTotal(tg.Tasks, "disk", Len(tg.Tasks))
          /\ r.CPU = DimTotal(tg.Tasks, "cpu", Len(tg.Tasks))
          /\ r.MemoryMB = DimTotal(tg.Tasks, "memory", Len(tg.Tasks))
    /\ Cardinality(combinedResources) <= 1

\* Ephemeral disk 150 and a task asking for 100 of disk give 250.
C15_Witness ==
    /\ lastOp = "SetTaskGroup"
    /\ \E tg \in taskGroup :
          tg.EphemeralDisk.SizeMB = 150 /\ tg.Tasks[1].DiskMB = 100
    /\ Footprint = Res(100, 250, 250)

(***************************************************************************)
(* C16 (Reset as synchronization point): the verdict of a Next() follows   *)
(* the plan as the last Reset() saw it, whatever the plan has become       *)
(* since; a Next() that directly follows a Reset() follows the plan as it  *)
(* is.                                                                     *)
(***************************************************************************)
\* The limit admits actual usage + plan p + footprint.
FitsWith(p) ==
    Superset(Ceiling,
             ResAdd(ResAdd(usages[actUsage][proposedLimit.hash],
                           PlanShare(p, proposedLimit.hash)),
                    Footprint))

C16_ResetSynchronizes ==
    /\ []((Evaluated /\ projected) =>
             ((ret = option) <=> FitsWith(planAtReset)))
    /\ [][(lastOp = "Reset" /\ lastOp' = "Next" /\ Evaluated') =>
             ((ret' = option') <=> FitsWith(plan)')]_vars

\* Accepted against the plan of the last Reset although the plan as it is
\* now would exhaust the limit.
C16_Witness ==
    /\ Evaluated /\ projected
    /\ ret = option
    /\ plan # planAtReset
    /\ ~FitsWith(plan)

(***************************************************************************)
(* C17 (inactive Reset): on an iterator configured at most once, a Reset() *)
(* with no quota stored or a build error recorded calls the source's       *)
(* Reset() and changes no field of the iterator and no usage record.       *)
(***************************************************************************)
C17_InactiveReset ==
    [][(lastOp' = "Reset" /\ setJobCalls <= 1
           /\ (quota = {} \/ buildErr # "")) =>
          /\ srcResetCalls' = 1
          /\ ~panicked'
          /\ UNCHANGED <<iterVars, usages>>]_vars

\* A Reset after a build error, with a non-empty plan.
C17_Witness ==
    /\ lastOp = "Reset"
    /\ setJobCalls = 1
    /\ buildErr # ""
    /\ plan # {}
    /\ srcResetCalls = 1
    /\ proposedUsage = ""

(***************************************************************************)
(* C18 (one pull per call): every Next() calls the source's Next() exactly *)
(* once and returns that candidate or none; every Reset() calls the        *)
(* source's Reset() exactly once; no other call reaches the source.        *)
(***************************************************************************)
C18_OnePull ==
    /\ lastOp = "Next" =>
          srcNextCalls = 1 /\ srcResetCalls = 0 /\ ret \in {option, NoNode}
    /\ lastOp = "Reset" => srcResetCalls = 1 /\ srcNextCalls = 0
    /\ lastOp \notin {"Next", "Reset"} => srcNextCalls = 0 /\ srcResetCalls = 0

\* A rejection after exactly one pull.
C18_Witness ==
    /\ Rejected
    /\ srcNextCalls = 1
    /\ option \in Nodes
    /\ ret = NoNode

(***************************************************************************)
(* C19 (ceiling exists): whenever Next() gets a candidate with a quota     *)
(* stored and no build error, the hash of the cached applicable limit is a *)
(* key of the limit mapping SetJob stored.                                 *)
(***************************************************************************)
C19_CeilingExists ==
    (lastOp = "Next" /\ option # NoNode /\ quota # {} /\ buildErr = "") =>
        proposedLimit.hash \in DOMAIN quotaLimits

(***************************************************************************)
(* C20 (resolver outcome): with SetJob called at most once, a recorded     *)
(* build error implies that no quota, limit mapping or actual usage is     *)
(* stored, and a stored quota implies a stored limit mapping, a stored     *)
(* actual usage with at least one limit, and no build error.               *)
(***************************************************************************)
C20_ResolverOutcome ==
    setJobCalls <= 1 =>
        /\ buildErr # "" =>
              quota = {} /\ DOMAIN quotaLimits = {} /\ actUsage = ""
        /\ quota # {} =>
              /\ buildErr = ""
              /\ DOMAIN quotaLimits # {}
              /\ actUsage # ""
              /\ DOMAIN usages[actUsage] # {}

\* The quota with two limits, stored.
C20_Witness ==
    /\ setJobCalls = 1
    /\ QuotaName = "q2"
    /\ DOMAIN quotaLimits = {"h1", "h2"}
    /\ actUsage = "q2"
    /\ buildErr = ""


(***************************************************************************)
(* C14 (instance isolation): with two workers whose iterators were         *)
(* configured from the same store, running their calls in any              *)
(* interleaving, each with its own plan: a call of one worker changes no   *)
(* field of the other worker's iterator and no usage object the other      *)
(* iterator refers to, and every verdict and every proposed usage of a     *)
(* worker is the one the store's usage record and that worker's own plan   *)
(* give.                                                                   *)
(***************************************************************************)
\* The usage objects the other worker's iterator refers to.
OtherUsages == {other.actUsage, other.proposedUsage, other.proposedLimit.obj} \ {""}

\* The store's usage record + plan p, as a usage.
StoreProjection(q, p) ==
    [h \in DOMAIN StateQuotaUsages[q] |->
        ResAdd(StateQuotaUsages[q][h], PlanShare(p, h))]

C14_InstanceIsolation ==
    /\ []((projected /\ ~panicked) =>
             usages[proposedUsage] = StoreProjection(actUsage, planAtReset))
    /\ [](other.projected =>
             usages[other.proposedUsage]
                = StoreProjection(other.actUsage, other.planAtReset))
    /\ []((Evaluated /\ projected) =>
             ((ret = option) <=>
                 Superset(Ceiling,
                          ResAdd(StoreProjection(actUsage, planAtReset)
                                                    [proposedLimit.hash],
                                 Footprint))))
    /\ [][(running' = running) =>
             /\ other' = other
             /\ \A a \in OtherUsages : usages'[a] = usages[a]]_vars
    /\ [][(running' # running) =>
             /\ usages' = usages
             /\ other'.buildErr = buildErr
             /\ other'.proposedLimit = proposedLimit
             /\ other'.proposedUsage = proposedUsage
             /\ other'.epochVerdicts = epochVerdicts
             /\ buildErr' = other.buildErr
             /\ proposedLimit' = other.proposedLimit
             /\ proposedUsage' = other.proposedUsage
             /\ epochVerdicts' = other.epochVerdicts]_vars

\* Both workers projected from the same usage record, each from its own
\* plan; one rejected its candidate, the other accepts the same footprint.
C14_Witness ==
    /\ Evaluated /\ projected
    /\ ret = option
    /\ other.projected
    /\ other.actUsage = actUsage
    /\ other.proposedUsage # proposedUsage
    /\ other.combinedResources = combinedResources
    /\ other.planAtReset # planAtReset
    /\ \E n \in Nodes : <<n, "reject">> \in other.epochVerdicts
    /\ other.buildErr = ""

====
